---------------------------- MODULE Spec2Model ----------------------------
(***************************************************************************)
(* Conversation store (ChatMemory) and message router (ChatInterface) of   *)
(* src/src/chatbot.py.                                                     *)
(*                                                                         *)
(* Representation.  A Python str is a sequence of chunks (TLA+ strings),   *)
(* so that f-string formatting is concatenation and "contains the marker"  *)
(* is a search.  A dict is a record with exactly the dict's keys, so that  *)
(* a missing key is a missing field.  The union-typed "content" of a turn  *)
(* is tagged: [list |-> FALSE, str |-> s] for a str and                    *)
(* [list |-> TRUE, blocks |-> bs] for a list.  A call that may raise       *)
(* yields [ok |-> TRUE, val |-> v] or [ok |-> FALSE, exc |-> str(e)].      *)
(***************************************************************************)
EXTENDS Integers, Sequences, FiniteSets, TLC

VARIABLES
    conversation_history,   \* ChatMemory.conversation_history
    client,                 \* ChatInterface.client
    chatbot,                \* value of the gr.Chatbot component (outputs[0]):
                            \* None, or Some(list of pairs)
    error_box,              \* value of the error text box (outputs[1])
    pc,                     \* where process_message is: "idle" (not running),
                            \* "appended" (the user turn is stored),
                            \* "completion" (in chat.completions.create)
    frame,                  \* arguments and locals of the current
                            \* process_message call, kept after its return
                            \* until the next operation
    lastOp,                 \* the operation that produced this state
    threads                 \* position and locals of the process_message
                            \* call of each event listener, when the two
                            \* listeners run their calls concurrently

vars == <<conversation_history, client, chatbot, error_box, pc, frame, lastOp,
          threads>>

-----------------------------------------------------------------------------
(* Bounds of the model *)

\* process_message is entered only while the store holds fewer than
\* MaxTurns turns (one call appends up to three).
MaxTurns == 3

\* direct add_message calls (outside process_message) are taken only while
\* the store holds fewer than MaxDirect turns.
MaxDirect == 3

-----------------------------------------------------------------------------
(* Python values *)

None == [none |-> TRUE]
Some(v) == [none |-> FALSE, val |-> v]

Ok(v) == [ok |-> TRUE, val |-> v]
Raise(e) == [ok |-> FALSE, exc |-> e]

IndexError == <<"list index out of range">>
KeyError(k) == <<"'", k, "'">>

StrContent(s) == [list |-> FALSE, str |-> s]
ListContent(bs) == [list |-> TRUE, blocks |-> bs]

TextBlock(t) == [type |-> "text", text |-> t]
ImageBlock(u) == [type |-> "image_url", image_url |-> [url |-> u]]

\* len(msg["content"]) for a list content
IsMultiBlock(msg) == msg.content.list /\ Len(msg.content.blocks) > 1

HasImageBlock(content) ==
    /\ content.list
    /\ \E i \in 1..Len(content.blocks) : content.blocks[i].type = "image_url"

-----------------------------------------------------------------------------
(* base64.b64encode(...).decode('utf-8') *)

B64Alphabet ==
    << "A","B","C","D","E","F","G","H","I","J","K","L","M",
       "N","O","P","Q","R","S","T","U","V","W","X","Y","Z",
       "a","b","c","d","e","f","g","h","i","j","k","l","m",
       "n","o","p","q","r","s","t","u","v","w","x","y","z",
       "0","1","2","3","4","5","6","7","8","9","+","/" >>

B64Char(n) == B64Alphabet[n + 1]

B64Group(b) ==
    LET b1 == b[1]
        b2 == IF Len(b) > 1 THEN b[2] ELSE 0
        b3 == IF Len(b) > 2 THEN b[3] ELSE 0
        n  == b1 * 65536 + b2 * 256 + b3
        c1 == B64Char(n \div 262144)
        c2 == B64Char((n \div 4096) % 64)
        c3 == IF Len(b) > 1 THEN B64Char((n \div 64) % 64) ELSE "="
        c4 == IF Len(b) > 2 THEN B64Char(n % 64) ELSE "="
    IN  <<c1, c2, c3, c4>>

RECURSIVE b64encode(_)
b64encode(bytes) ==
    IF bytes = <<>> THEN <<>>
    ELSE IF Len(bytes) <= 3 THEN B64Group(bytes)
    ELSE B64Group(SubSeq(bytes, 1, 3)) \o b64encode(SubSeq(bytes, 4, Len(bytes)))

-----------------------------------------------------------------------------
(* ChatMemory *)

\* ChatMemory.__init__
NewChatMemory == <<>>

\* a prune whose length test is off by one (len(...) > 2)
PruneMultiBlock_off_by_one(history) ==
    SelectSeq(history, LAMBDA msg : ~(msg.content.list /\ Len(msg.content.blocks) > 2))

\* the list comprehension of add_message
PruneMultiBlock(history) ==
    SelectSeq(history, LAMBDA msg : ~IsMultiBlock(msg))

\* an add_message that prunes whatever has_image is
add_message_prune_always(history, role, content, has_image, hide_prompt) ==
    Append(PruneMultiBlock(history),
           [role        |-> role,
            content     |-> content,
            has_image   |-> has_image,
            hide_prompt |-> hide_prompt])

\* ChatMemory.add_message
add_message(history, role, content, has_image, hide_prompt) ==
    LET kept == IF ~has_image THEN PruneMultiBlock(history) ELSE history
    IN  Append(kept, [role        |-> role,
                      content     |-> content,
                      has_image   |-> has_image,
                      hide_prompt |-> hide_prompt])

\* ChatMemory.get_history
get_history(history) == history

\* a clear that drops only the oldest turn
clear_oldest_only(history) ==
    IF history = <<>> THEN <<>> ELSE Tail(history)

\* ChatMemory.clear
clear(history) == <<>>

\* f"<img src='{image_url}' width='400'>"
ImgMarkup(url) == <<"<img src='">> \o url \o <<"' width='400'>">>

\* the hide_prompt branch of get_display_history: the first image block only
FirstImagePairs(blocks) ==
    LET idx == {i \in 1..Len(blocks) : blocks[i].type = "image_url"}
    IN  IF idx = {} THEN <<>>
        ELSE LET i == CHOOSE i \in idx : \A j \in idx : i <= j
             IN  << <<Some(ImgMarkup(blocks[i].image_url.url)), None>> >>

\* a rendering that puts every turn in the user column
DisplayOfTurn_user_column(msg) ==
    IF msg.content.list THEN
        LET blocks == msg.content.blocks IN
        IF Len(blocks) = 0 THEN Raise(IndexError)
        ELSE IF "text" \notin DOMAIN blocks[1] THEN Raise(KeyError("text"))
        ELSE Ok(<< <<Some(blocks[1].text), None>> >>)
    ELSE Ok(<< <<Some(msg.content.str), None>> >>)

\* one iteration of the loop of get_display_history: the pairs this turn
\* adds, or the exception the iteration raises
DisplayOfTurn(msg) ==
    IF msg.role = "user" THEN
        IF msg.content.list THEN
            LET blocks == msg.content.blocks IN
            IF msg.hide_prompt THEN Ok(FirstImagePairs(blocks))
            ELSE IF Len(blocks) = 0 THEN Raise(IndexError)
            ELSE IF "text" \notin DOMAIN blocks[1] THEN Raise(KeyError("text"))
            ELSE IF Len(blocks) > 1 THEN
                IF "image_url" \notin DOMAIN blocks[2]
                THEN Raise(KeyError("image_url"))
                ELSE Ok(<< <<Some(blocks[1].text), None>>,
                           <<Some(ImgMarkup(blocks[2].image_url.url)), None>> >>)
            ELSE Ok(<< <<Some(blocks[1].text), None>> >>)
        ELSE Ok(<< <<Some(msg.content.str), None>> >>)
    ELSE
        IF msg.content.list THEN
            LET blocks == msg.content.blocks IN
            IF Len(blocks) = 0 THEN Raise(IndexError)
            ELSE IF "text" \notin DOMAIN blocks[1] THEN Raise(KeyError("text"))
            ELSE Ok(<< <<None, Some(blocks[1].text)>> >>)
        ELSE Ok(<< <<None, Some(msg.content.str)>> >>)

\* ChatMemory.get_display_history
RECURSIVE get_display_history(_)
get_display_history(history) ==
    IF history = <<>> THEN Ok(<<>>)
    ELSE LET head == DisplayOfTurn(Head(history)) IN
         IF ~head.ok THEN head
         ELSE LET rest == get_display_history(Tail(history)) IN
              IF ~rest.ok THEN rest ELSE Ok(head.val \o rest.val)

-----------------------------------------------------------------------------
(* Environment: the files a path may name and what the collaborators answer *)

\* the bytes of the files open(path, "rb") can read; any other path raises
Files ==
    ("a.png" :> <<137, 80, 78, 71>>) @@ ("b.jpg" :> <<255, 216>>)


\* open(path, "rb").read()
ReadFile(path) ==
    IF path \in DOMAIN Files THEN Ok(Files[path])
    ELSE Raise(<<"[Errno 2] No such file or directory: '", path, "'">>)

UserInputs == {<<>>, <<"Hello">>}

Replies == {<<"Hi there">>}

\* what chat.completions.create does: a completion with a first choice, a
\* completion without choices, or an exception
CompletionOutcomes ==
    {[kind |-> "reply", text |-> r] : r \in Replies}
        \cup {[kind |-> "no_choices"],
              [kind |-> "raise", exc |-> <<"Connection error.">>]}

\* what the description model's chat.completions.create does
DescribeOutcomes ==
    {Ok(<<"a benzene ring">>), Raise(<<"Connection error.">>)}

-----------------------------------------------------------------------------
(* ChatInterface *)

\* ChatInterface.__init__: self.vision_models
vision_models ==
    ("google/gemini-2.0-flash-001" :> TRUE) @@
    ("openai/o1" :> TRUE) @@
    ("openai/o3-mini-high" :> TRUE) @@
    ("deepseek/deepseek-r1" :> FALSE) @@
    ("deepseek/deepseek-r1-distill-llama-70b" :> FALSE) @@
    ("anthropic/claude-3.7-sonnet" :> TRUE) @@
    ("openai/gpt-4o-mini" :> FALSE) @@
    ("openai/gpt-4o-2024-11-20" :> TRUE) @@
    ("qwen/qvq-72b-preview" :> TRUE) @@
    ("mistralai/pixtral-large-2411" :> TRUE) @@
    ("x-ai/grok-2-vision-1212" :> TRUE)

\* self.vision_models.get(model, False)
VisionGet(model) ==
    IF model \in DOMAIN vision_models THEN vision_models[model] ELSE FALSE

\* the (model_name, custom_model) selections the model explores
ModelChoices ==
    { <<"openai/o1", "">>,
      <<"openai/gpt-4o-mini", "">>,
      <<"custom", "openai/o1">>,
      <<"custom", "my/model">> }

\* actual_model = custom_model if model_name == "custom" else model_name
ActualModel(model_name, custom_model) ==
    IF model_name = "custom" THEN custom_model ELSE model_name

\* ChatInterface.initialize_client: the client after the call (the OpenAI
\* constructor either returns or raises; the exception is swallowed)
initialize_client(old, base_url, api_key, ctor_ok) ==
    IF ctor_ok THEN [base_url |-> base_url, api_key |-> api_key] ELSE old

\* ChatInterface.get_image_description: the str it returns
get_image_description(image_path, service) ==
    LET file == ReadFile(image_path) IN
    IF ~file.ok THEN <<"Error getting image description: ">> \o file.exc
    ELSE IF ~service.ok THEN <<"Error getting image description: ">> \o service.exc
    ELSE service.val

\* f"data:image/png;base64,{img_data}"
PngDataUri(img_data) == <<"data:image/png;base64,">> \o img_data

\* f"{user_input}\n[Image Description: {image_description}]"
DescribedText(user_input, image_description) ==
    user_input \o <<"\n[Image Description: ">> \o image_description \o <<"]">>

\* has_image=(multimodal_enabled and image is not None)
HasImageArg(multimodal_enabled, image) ==
    multimodal_enabled /\ image # None

\* an image branch that swallows the failure of open() and goes on without
\* the image
BuildContent_ignore_failure(user_input, image, multimodal_enabled, actual_model, service) ==
    LET initial == IF user_input # <<>> THEN <<TextBlock(user_input)>> ELSE <<>>
    IN  IF multimodal_enabled /\ image # None THEN
            LET file == ReadFile(image.val)
            IN  IF ~file.ok THEN Ok(initial)
                ELSE IF ~VisionGet(actual_model) THEN
                    Ok(<<TextBlock(DescribedText(user_input,
                            get_image_description(image.val, service)))>>)
                ELSE Ok(Append(initial,
                               ImageBlock(PngDataUri(b64encode(file.val)))))
        ELSE Ok(initial)

\* a vision branch that encodes the image but never appends the block
BuildContent_no_image_block(user_input, image, multimodal_enabled, actual_model, service) ==
    LET initial == IF user_input # <<>> THEN <<TextBlock(user_input)>> ELSE <<>>
    IN  IF multimodal_enabled /\ image # None THEN
            LET file == ReadFile(image.val)
            IN  IF ~file.ok THEN file
                ELSE IF ~VisionGet(actual_model) THEN
                    Ok(<<TextBlock(DescribedText(user_input,
                            get_image_description(image.val, service)))>>)
                ELSE Ok(initial)
        ELSE Ok(initial)

\* process_message, lines 144-168: the content of the user turn, or the
\* exception of the image branch
BuildContent(user_input, image, multimodal_enabled, actual_model, service) ==
    LET initial == IF user_input # <<>> THEN <<TextBlock(user_input)>> ELSE <<>>
    IN  IF multimodal_enabled /\ image # None THEN
            LET is_vision_model == VisionGet(actual_model)
                file == ReadFile(image.val)
            IN  IF ~file.ok THEN file
                ELSE IF ~is_vision_model THEN
                    Ok(<<TextBlock(DescribedText(user_input,
                            get_image_description(image.val, service)))>>)
                ELSE Ok(Append(initial,
                               ImageBlock(PngDataUri(b64encode(file.val)))))
        ELSE Ok(initial)

\* whether lines 150-168 call get_image_description
CallsDescribe(image, multimodal_enabled, actual_model) ==
    /\ multimodal_enabled /\ image # None
    /\ ReadFile(image.val).ok
    /\ ~VisionGet(actual_model)

\* an api_msg that always carries the turn's raw content
ApiMessage_always_raw(msg) ==
    Ok([role |-> msg.role, content |-> msg.content])

\* process_message, lines 179-187: one api_msg, or the exception
ApiMessage(msg) ==
    IF msg.content.list THEN
        IF msg.has_image THEN Ok([role |-> msg.role, content |-> msg.content])
        ELSE LET blocks == msg.content.blocks IN
             IF Len(blocks) = 0 THEN Raise(IndexError)
             ELSE IF "text" \notin DOMAIN blocks[1] THEN Raise(KeyError("text"))
             ELSE Ok([role |-> msg.role, content |-> StrContent(blocks[1].text)])
    ELSE Ok([role |-> msg.role, content |-> msg.content])

\* process_message, lines 177-187: api_messages, or the exception
RECURSIVE BuildApiMessages(_)
BuildApiMessages(history) ==
    IF history = <<>> THEN Ok(<<>>)
    ELSE LET head == ApiMessage(Head(history)) IN
         IF ~head.ok THEN head
         ELSE LET rest == BuildApiMessages(Tail(history)) IN
              IF ~rest.ok THEN rest ELSE Ok(<<head.val>> \o rest.val)

AssistantContent(text) == ListContent(<<TextBlock(text)>>)

\* what process_message hands back and leaves in the store
Returned(history, shown, error) ==
    [store |-> history, chatbot |-> shown, error |-> error, escaped |-> FALSE]

\* process_message left by the exception exc: nothing is handed back and
\* the two output components keep what they showed
Escaped(history, shown, exc) ==
    [store |-> history, chatbot |-> shown, error |-> exc, escaped |-> TRUE]

\* process_message, lines 218-221: the handler of the inner try, entered
\* with exception text exc; it returns (display, error_msg) or raises what
\* get_display_history raised
InnerHandler(history, exc) ==
    LET error_msg == <<"Error in API call: ">> \o exc
        stored == add_message(history, "assistant",
                              AssistantContent(error_msg), FALSE, FALSE)
        display == get_display_history(stored)
    IN  [store  |-> stored,
         result |-> IF display.ok
                    THEN Ok([chatbot |-> Some(display.val), error |-> error_msg])
                    ELSE Raise(display.exc)]

\* an outer try without its except clause
OuterHandler_no_except(history, shown, result) ==
    IF result.ok THEN Returned(history, result.val.chatbot, result.val.error)
    ELSE Escaped(history, shown, result.exc)

\* process_message, lines 223-225: the handler of the outer try, which
\* returns the caller's history and the exception text
OuterHandler(history, shown, result) ==
    IF result.ok THEN Returned(history, result.val.chatbot, result.val.error)
    ELSE Returned(history, shown, <<"Error: ">> \o result.exc)

\* process_message, lines 218-225: the handler of the inner try inside the
\* outer try
ApiErrorHandler(history, shown, exc) ==
    LET inner == InnerHandler(history, exc)
    IN  OuterHandler(inner.store, shown, inner.result)

\* process_message, lines 209-221: from the return of
\* chat.completions.create to the return of process_message
AfterCompletion(history, shown, outcome) ==
    IF outcome.kind = "raise" THEN ApiErrorHandler(history, shown, outcome.exc)
    ELSE
        LET error_msg == IF outcome.kind = "reply" THEN <<>>
                         ELSE <<"No response from API">>
            text == IF outcome.kind = "reply" THEN outcome.text ELSE error_msg
            stored == add_message(history, "assistant",
                                  AssistantContent(text), FALSE, FALSE)
            display == get_display_history(stored)
        IN  IF display.ok THEN Returned(stored, Some(display.val), error_msg)
            ELSE ApiErrorHandler(stored, shown, display.exc)

NotConfiguredError == <<"Please configure API settings first.">>

-----------------------------------------------------------------------------
(* State machine *)

\* the frame before any process_message call
NoCall ==
    [user_input        |-> <<>>,
     image             |-> None,
     multimodal_enabled |-> FALSE,
     model_name        |-> "",
     custom_model      |-> "",
     actual_model      |-> "",
     entry             |-> <<>>,
     describe_calls    |-> 0,
     completion_calls  |-> 0,
     api_messages      |-> <<>>,
     outcome           |-> "none",
     reply             |-> <<>>,
     describe_failed   |-> FALSE,
     request_model     |-> "",
     escaped           |-> FALSE]

\* the two event listeners bound to process_message
Threads == {"submit_btn.click", "msg.submit"}

\* the locals of a listener that has not called process_message
NoThreadCall ==
    [pc         |-> "idle",
     ticket     |-> 0,
     user_input |-> <<>>,
     has_image  |-> FALSE,
     stage      |-> "none",
     pending    |-> None,
     kept       |-> <<>>,
     appended   |-> FALSE,
     in_handler |-> FALSE,
     error_msg  |-> <<>>,
     outcome    |-> "none"]

\* ChatInterface.__init__ and the initial values of the two output components
Init ==
    /\ conversation_history = NewChatMemory
    /\ client = None
    /\ chatbot = None
    /\ error_box = <<>>
    /\ pc = "idle"
    /\ frame = NoCall
    /\ lastOp = [op |-> "init"]
    /\ threads = [t \in Threads |-> NoThreadCall]

\* configure_api (the handler of the "Configure API" button), which calls
\* initialize_client and reports success whatever it returned
configure_api(base_url, api_key, ctor_ok) ==
    /\ pc = "idle"
    /\ client' = initialize_client(client, base_url, api_key, ctor_ok)
    /\ error_box' = <<"API configured successfully!">>
    /\ UNCHANGED threads
    /\ lastOp' = [op |-> "configure_api"]
    /\ frame' = NoCall
    /\ UNCHANGED <<conversation_history, chatbot, pc>>

\* a call of ChatMemory.add_message from outside process_message; the model
\* makes these calls before the interface handles its first event
AddMessage(role, content, has_image, hide_prompt) ==
    /\ pc = "idle"
    /\ lastOp.op \in {"init", "add_message", "clear"}
    /\ Len(conversation_history) < MaxDirect
    /\ conversation_history' =
           add_message(conversation_history, role, content, has_image, hide_prompt)
    /\ UNCHANGED threads
    /\ lastOp' = [op |-> "add_message", has_image |-> has_image,
                  before |-> conversation_history]
    /\ frame' = NoCall
    /\ UNCHANGED <<client, chatbot, error_box, pc>>

\* a call of ChatMemory.clear from outside the interface
MemoryClear ==
    /\ pc = "idle"
    /\ conversation_history' = clear(conversation_history)
    /\ UNCHANGED threads
    /\ lastOp' = [op |-> "clear", before |-> conversation_history]
    /\ frame' = NoCall
    /\ UNCHANGED <<client, chatbot, error_box, pc>>

\* clear_chat (the handler of the "Clear" button): clears the memory and
\* returns None and "" for the chat history and the error box
clear_chat ==
    /\ pc = "idle"
    /\ conversation_history' = clear(conversation_history)
    /\ chatbot' = None
    /\ error_box' = <<>>
    /\ UNCHANGED threads
    /\ lastOp' = [op |-> "clear_chat", before |-> conversation_history]
    /\ frame' = NoCall
    /\ UNCHANGED <<client, pc>>

\* a guard that never rejects
NotConfigured_never(c) == FALSE

\* if not self.client
NotConfigured(c) == c = None

\* process_message from its entry to its first return, or to the return of
\* memory.add_message for the user turn (lines 140-174)
Submit(user_input, image, multimodal_enabled, model_name, custom_model, service) ==
    LET actual_model == ActualModel(model_name, custom_model)
        args == [NoCall EXCEPT !.user_input = user_input,
                               !.image = image,
                               !.multimodal_enabled = multimodal_enabled,
                               !.model_name = model_name,
                               !.custom_model = custom_model,
                               !.actual_model = actual_model,
                               !.entry = conversation_history]
        content == BuildContent(user_input, image, multimodal_enabled,
                                actual_model, service)
        described == IF CallsDescribe(image, multimodal_enabled, actual_model)
                     THEN 1 ELSE 0
    IN
    /\ pc = "idle"
    /\ Len(conversation_history) < MaxTurns
    /\ UNCHANGED threads
    /\ lastOp' = [op |-> "process_message"]
    /\ UNCHANGED client
    /\ IF NotConfigured(client) THEN
           /\ chatbot' = None
           /\ error_box' = NotConfiguredError
           /\ frame' = [args EXCEPT !.outcome = "not_configured"]
           /\ UNCHANGED <<conversation_history, pc>>
       ELSE IF ~content.ok THEN
           /\ error_box' = <<"Error processing image: ">> \o content.exc
           /\ frame' = [args EXCEPT !.outcome = "image_error"]
           /\ UNCHANGED <<conversation_history, chatbot, pc>>
       ELSE
           /\ conversation_history' =
                  add_message(conversation_history, "user",
                              ListContent(content.val),
                              HasImageArg(multimodal_enabled, image), FALSE)
           /\ pc' = "appended"
           /\ frame' = [args EXCEPT !.describe_calls = described,
                                    !.describe_failed =
                                        described = 1 /\ ~service.ok,
                                    !.outcome = "pending"]
           /\ UNCHANGED <<chatbot, error_box>>

\* process_message from the user turn's append to the call of
\* chat.completions.create (lines 176-207), or to its return when building
\* api_messages raises (lines 218-225)
Send ==
    LET api_messages == BuildApiMessages(get_history(conversation_history))
        failed == ApiErrorHandler(conversation_history, chatbot, api_messages.exc)
    IN
    /\ pc = "appended"
    /\ UNCHANGED threads
    /\ lastOp' = [op |-> "process_message"]
    /\ UNCHANGED client
    /\ IF ~api_messages.ok THEN
           /\ pc' = "idle"
           /\ conversation_history' = failed.store
           /\ chatbot' = failed.chatbot
           /\ error_box' = IF failed.escaped THEN error_box ELSE failed.error
           /\ frame' = [frame EXCEPT !.outcome = "build_error",
                                     !.escaped = failed.escaped]
       ELSE
           /\ pc' = "completion"
           /\ frame' = [frame EXCEPT !.completion_calls = 1,
                                     !.request_model = frame.actual_model,
                                     !.api_messages = api_messages.val]
           /\ UNCHANGED <<conversation_history, chatbot, error_box>>

\* process_message from the return of chat.completions.create to its own
\* return (lines 209-225)
Complete(outcome) ==
    LET result == AfterCompletion(conversation_history, chatbot, outcome) IN
    /\ pc = "completion"
    /\ pc' = "idle"
    /\ conversation_history' = result.store
    /\ chatbot' = result.chatbot
    /\ error_box' = IF result.escaped THEN error_box ELSE result.error
    /\ frame' = [frame EXCEPT !.outcome = outcome.kind,
                              !.escaped = result.escaped,
                              !.reply = IF outcome.kind = "reply"
                                        THEN outcome.text ELSE <<>>]
    /\ UNCHANGED threads
    /\ lastOp' = [op |-> "process_message"]
    /\ UNCHANGED client

BaseUrls == {"https://openrouter.ai/api/v1"}
ApiKeys == {"sk-key"}

\* the contents direct add_message calls are made with
DirectContents ==
    { StrContent(<<"Hi">>),
      ListContent(<<TextBlock(<<"Hi">>)>>),
      ListContent(<<TextBlock(<<"Hi">>),
                    ImageBlock(PngDataUri(b64encode(Files["b.jpg"])))>>) }

\* the (role, content, has_image, hide_prompt) of direct add_message calls;
\* hide_prompt is read only when a user turn with list content is displayed
DirectArgs ==
    { <<"user", content, has_image, FALSE>> :
          content \in DirectContents, has_image \in BOOLEAN }
      \cup { <<"assistant", StrContent(<<"Hi">>), FALSE, FALSE>>,
              <<"user", ListContent(<<TextBlock(<<"Hi">>),
                    ImageBlock(PngDataUri(b64encode(Files["b.jpg"])))>>),
                TRUE, TRUE>> }

ConfigureStep ==
    \E base_url \in BaseUrls, api_key \in ApiKeys, ctor_ok \in BOOLEAN :
        configure_api(base_url, api_key, ctor_ok)

AddMessageStep ==
    \E a \in DirectArgs : AddMessage(a[1], a[2], a[3], a[4])

\* the (image, multimodal_enabled) process_message is called with
ImageInputs ==
    { <<None, FALSE>>, <<None, TRUE>>,
      <<Some("a.png"), FALSE>>, <<Some("a.png"), TRUE>>,
      <<Some("missing.png"), TRUE>> }

SubmitStep ==
    \E user_input \in UserInputs,
       attached \in ImageInputs,
       choice \in ModelChoices :
       LET image == attached[1]
           multimodal_enabled == attached[2]
           \* the description service answers only when it is called
           services ==
               IF CallsDescribe(image, multimodal_enabled,
                                ActualModel(choice[1], choice[2]))
               THEN DescribeOutcomes ELSE {Ok(<<>>)}
       IN  \E service \in services :
               Submit(user_input, image, multimodal_enabled,
                      choice[1], choice[2], service)

CompleteStep ==
    \E outcome \in CompletionOutcomes : Complete(outcome)

\* the turn add_message appends
Turn(role, content, has_image, hide_prompt) ==
    [role        |-> role,
     content     |-> content,
     has_image   |-> has_image,
     hide_prompt |-> hide_prompt]

\* the locals of listener t when its call enters add_message for an
\* assistant turn with this text (lines 211, 215 and 220)
AddingAssistant(t, text, error_msg, in_handler, outcome) ==
    [threads[t] EXCEPT
        !.pc = "filter",
        !.stage = "assistant",
        !.pending = Some(Turn("assistant", AssistantContent(text), FALSE, FALSE)),
        !.error_msg = error_msg,
        !.in_handler = in_handler,
        !.outcome = outcome]

\* the locals of listener t when its call enters the handler of the inner
\* try with exception text exc (lines 218-220)
EnteringHandler(t, exc, outcome) ==
    AddingAssistant(t, <<"Error in API call: ">> \o exc,
                    <<"Error in API call: ">> \o exc, TRUE, outcome)

\* listener t calls process_message: lines 140-174 up to the entry of
\* add_message for the user turn
T_Begin(t, user_input, image, multimodal_enabled, model_name, custom_model) ==
    LET actual_model == ActualModel(model_name, custom_model)
        content == BuildContent(user_input, image, multimodal_enabled,
                                actual_model, Ok(<<>>))
        has_image == HasImageArg(multimodal_enabled, image)
        ticket == Cardinality({u \in Threads : threads[u].pc # "idle"}) + 1
        args == [threads[t] EXCEPT !.ticket = ticket,
                                   !.user_input = user_input,
                                   !.has_image = has_image]
    IN
    /\ pc = "idle"
    /\ threads[t].pc = "idle"
    /\ lastOp' = [op |-> "process_message", thread |-> t]
    /\ UNCHANGED <<conversation_history, client, pc, frame>>
    /\ IF NotConfigured(client) THEN
           /\ chatbot' = None
           /\ error_box' = NotConfiguredError
           /\ threads' = [threads EXCEPT ![t] =
                  [args EXCEPT !.pc = "done", !.outcome = "not_configured"]]
       ELSE IF ~content.ok THEN
           /\ error_box' = <<"Error processing image: ">> \o content.exc
           /\ threads' = [threads EXCEPT ![t] =
                  [args EXCEPT !.pc = "done", !.outcome = "image_error"]]
           /\ UNCHANGED chatbot
       ELSE
           /\ threads' = [threads EXCEPT ![t] =
                  [args EXCEPT
                      !.pc = IF has_image THEN "append" ELSE "filter",
                      !.stage = "user",
                      !.pending = Some(Turn("user", ListContent(content.val),
                                            has_image, FALSE)),
                      !.outcome = "pending"]]
           /\ UNCHANGED <<chatbot, error_box>>

\* add_message in listener t, lines 16-19: the list comprehension has read
\* self.conversation_history and built the new list
T_Filter(t) ==
    /\ threads[t].pc = "filter"
    /\ threads' = [threads EXCEPT ![t] =
           [threads[t] EXCEPT !.pc = "rebind",
                              !.kept = PruneMultiBlock(conversation_history)]]
    /\ lastOp' = [op |-> "process_message", thread |-> t]
    /\ UNCHANGED <<conversation_history, client, chatbot, error_box, pc, frame>>

\* add_message in listener t, line 16: self.conversation_history is bound to
\* the list the comprehension built
T_Rebind(t) ==
    /\ threads[t].pc = "rebind"
    /\ conversation_history' = threads[t].kept
    /\ threads' = [threads EXCEPT ![t] =
           [threads[t] EXCEPT !.pc = "append", !.kept = <<>>]]
    /\ lastOp' = [op |-> "process_message", thread |-> t]
    /\ UNCHANGED <<client, chatbot, error_box, pc, frame>>

\* add_message in listener t, lines 21-26: self.conversation_history.append
T_Append(t) ==
    /\ threads[t].pc = "append"
    /\ conversation_history' =
           Append(conversation_history, threads[t].pending.val)
    /\ threads' = [threads EXCEPT ![t] =
           [threads[t] EXCEPT
               !.pc = IF threads[t].stage = "user" THEN "build" ELSE "display",
               !.appended = TRUE]]
    /\ lastOp' = [op |-> "process_message", thread |-> t]
    /\ UNCHANGED <<client, chatbot, error_box, pc, frame>>

\* listener t builds api_messages and calls chat.completions.create
\* (lines 176-207), or enters the handler of the inner try
T_Send(t) ==
    LET api_messages == BuildApiMessages(get_history(conversation_history)) IN
    /\ threads[t].pc = "build"
    /\ threads' = [threads EXCEPT ![t] =
           IF api_messages.ok
           THEN [threads[t] EXCEPT !.pc = "completion"]
           ELSE EnteringHandler(t, api_messages.exc, "build_error")]
    /\ lastOp' = [op |-> "process_message", thread |-> t]
    /\ UNCHANGED <<conversation_history, client, chatbot, error_box, pc, frame>>

\* chat.completions.create returns to listener t (lines 209-220), which
\* enters add_message for the assistant turn
T_Complete(t, outcome) ==
    /\ threads[t].pc = "completion"
    /\ threads' = [threads EXCEPT ![t] =
           IF outcome.kind = "raise"
           THEN EnteringHandler(t, outcome.exc, "raise")
           ELSE IF outcome.kind = "reply"
           THEN AddingAssistant(t, outcome.text, <<>>, FALSE, "reply")
           ELSE AddingAssistant(t, <<"No response from API">>,
                                <<"No response from API">>, FALSE, "no_choices")]
    /\ lastOp' = [op |-> "process_message", thread |-> t]
    /\ UNCHANGED <<conversation_history, client, chatbot, error_box, pc, frame>>

\* listener t renders the history and returns (lines 212, 216, 221), enters
\* the handler of the inner try when the rendering raised outside it, or
\* returns through the handler of the outer try (lines 223-225)
T_Return(t) ==
    LET display == get_display_history(conversation_history) IN
    /\ threads[t].pc = "display"
    /\ lastOp' = [op |-> "process_message", thread |-> t]
    /\ UNCHANGED <<conversation_history, client, pc, frame>>
    /\ IF display.ok THEN
           /\ chatbot' = Some(display.val)
           /\ error_box' = threads[t].error_msg
           /\ threads' = [threads EXCEPT ![t] = [threads[t] EXCEPT !.pc = "done"]]
       ELSE IF ~threads[t].in_handler THEN
           /\ threads' = [threads EXCEPT ![t] =
                  EnteringHandler(t, display.exc, threads[t].outcome)]
           /\ UNCHANGED <<chatbot, error_box>>
       ELSE
           /\ error_box' = <<"Error: ">> \o display.exc
           /\ threads' = [threads EXCEPT ![t] = [threads[t] EXCEPT !.pc = "done"]]
           /\ UNCHANGED chatbot

\* the (user_input, image, multimodal_enabled) of concurrent calls
ConcurrentInputs ==
    { <<<<"Hello">>, None, FALSE>>,
      <<<<"Next question">>, None, FALSE>>,
      <<<<"Hello">>, Some("a.png"), TRUE>>,
      <<<<>>, Some("a.png"), TRUE>> }

\* the concurrent calls select models that need no image description
T_BeginStep ==
    \E t \in Threads, input \in ConcurrentInputs, choice \in ModelChoices :
        /\ ~CallsDescribe(input[2], input[3], ActualModel(choice[1], choice[2]))
        /\ T_Begin(t, input[1], input[2], input[3], choice[1], choice[2])

T_FilterStep == \E t \in Threads : T_Filter(t)

T_RebindStep == \E t \in Threads : T_Rebind(t)

T_AppendStep == \E t \in Threads : T_Append(t)

T_SendStep == \E t \in Threads : T_Send(t)

T_CompleteStep ==
    \E t \in Threads, outcome \in CompletionOutcomes : T_Complete(t, outcome)

T_ReturnStep == \E t \in Threads : T_Return(t)

\* the two listeners running one process_message call each, with the
\* interpreter free to switch between them at any of the steps above
ConcurrentNext ==
    \/ ConfigureStep
    \/ T_BeginStep
    \/ T_FilterStep
    \/ T_RebindStep
    \/ T_AppendStep
    \/ T_SendStep
    \/ T_CompleteStep
    \/ T_ReturnStep

\* ChatMemory used on its own
MemoryNext == AddMessageStep \/ MemoryClear

\* the handlers of the interface
RouterNext == ConfigureStep \/ clear_chat \/ SubmitStep \/ Send \/ CompleteStep

\* the handlers of the interface over a memory that add_message calls from
\* outside have filled
Next ==
    \/ ConfigureStep
    \/ AddMessageStep
    \/ clear_chat
    \/ SubmitStep
    \/ Send
    \/ CompleteStep

Spec == Init /\ [][Next]_vars

RouterSpec == Init /\ [][RouterNext]_vars

MemorySpec == Init /\ [][MemoryNext]_vars

ConcurrentSpec == Init /\ [][ConcurrentNext]_vars

-----------------------------------------------------------------------------
(* Properties *)

\* the positions of the turns whose content is a list of more than one block
MultiBlockTurns(history) ==
    {i \in 1..Len(history) : IsMultiBlock(history[i])}

\* C1: right after an add_message with has_image=false, no turn other than
\* the one just appended has a content list of more than one block.
C1_PruneOnNonImageAppend ==
    (lastOp.op = "add_message" /\ ~lastOp.has_image)
        => MultiBlockTurns(conversation_history)
               \subseteq {Len(conversation_history)}

\* C1 witness: a non-image add_message has run on a store that still holds
\* earlier turns, and the turn it appended is itself multi-block.
C1_Witness ==
    /\ lastOp.op = "add_message" /\ ~lastOp.has_image
    /\ Len(conversation_history) >= 2
    /\ MultiBlockTurns(conversation_history) = {Len(conversation_history)}

\* C2 (as claimed): in every reachable state at most one turn has a content
\* list of more than one block.
C2_AtMostOneMultiBlock ==
    Cardinality(MultiBlockTurns(conversation_history)) <= 1

\* the messages of a payload whose content carries an image block
ImageMessages(messages) ==
    {i \in 1..Len(messages) : HasImageBlock(messages[i].content)}

\* C3 (as claimed): every message array passed to the completion endpoint
\* holds at most one message whose content carries an image block.
C3_AtMostOneImageInPayload ==
    pc = "completion" => Cardinality(ImageMessages(frame.api_messages)) <= 1

\* C4: process_message without a configured client returns the configuration
\* error, leaves the store as it was at entry and calls neither the
\* description service nor the completion endpoint.
C4_NotConfiguredRejected ==
    (lastOp.op = "process_message" /\ client = None)
        => /\ pc = "idle"
           /\ error_box = NotConfiguredError
           /\ chatbot = None
           /\ conversation_history = frame.entry
           /\ frame.describe_calls = 0
           /\ frame.completion_calls = 0
           /\ frame.api_messages = <<>>

\* C4 witness: the rejected call was made with an image attached on a
\* store that already holds turns.
C4_Witness ==
    /\ lastOp.op = "process_message" /\ client = None
    /\ error_box = NotConfiguredError
    /\ conversation_history # <<>>
    /\ HasImageArg(frame.multimodal_enabled, frame.image)

\* process_message has returned (the state is the one it left)
Returned_from_call == lastOp.op = "process_message" /\ pc = "idle"

\* process_message was called with image input enabled and an image attached
ImageAttached == HasImageArg(frame.multimodal_enabled, frame.image)

\* C5: when reading the attached image fails, process_message returns a
\* non-empty error text, the store is as it was at entry (no user turn, no
\* assistant turn) and the completion endpoint is not called.
C5_ImageFailureLeavesStore ==
    (/\ lastOp.op = "process_message" /\ client # None
     /\ ImageAttached /\ frame.image.val \notin DOMAIN Files)
        => /\ pc = "idle"
           /\ error_box # <<>>
           /\ conversation_history = frame.entry
           /\ frame.completion_calls = 0
           /\ frame.api_messages = <<>>

\* C5 witness: the image could not be read on a store that holds turns.
C5_Witness ==
    /\ Returned_from_call /\ client # None
    /\ ImageAttached /\ frame.image.val \notin DOMAIN Files
    /\ frame.entry # <<>>
    /\ error_box # <<>>

\* the literal "[Image Description: " occurs in the text
ContainsMarker(text) ==
    \E i \in 1..Len(text) : text[i] = "\n[Image Description: "

\* the call routes a readable attached image to a model that is, or is not,
\* vision-capable, and has just appended its user turn
RoutedImage(vision) ==
    /\ pc = "appended"
    /\ ImageAttached /\ frame.image.val \in DOMAIN Files
    /\ VisionGet(frame.actual_model) = vision

\* C6 (as claimed): with a non-vision model the appended user turn has
\* has_image=false and a text content that contains the marker and no
\* image block.
C6_DescribedTurnHasNoImageFlag ==
    RoutedImage(FALSE) =>
        LET turn == conversation_history[Len(conversation_history)] IN
        /\ turn.role = "user"
        /\ ~turn.has_image
        /\ ~HasImageBlock(turn.content)
        /\ turn.content.list /\ Len(turn.content.blocks) = 1
        /\ turn.content.blocks[1].type = "text"
        /\ ContainsMarker(turn.content.blocks[1].text)

\* the position of a base64 character in the alphabet
B64Index(c) == CHOOSE n \in 0..63 : B64Alphabet[n + 1] = c

\* the bytes of one group of four base64 characters
B64DecodeGroup(g) ==
    LET pad == IF g[3] = "=" THEN 2 ELSE IF g[4] = "=" THEN 1 ELSE 0
        v(i) == IF g[i] = "=" THEN 0 ELSE B64Index(g[i])
        n == v(1) * 262144 + v(2) * 4096 + v(3) * 64 + v(4)
    IN  SubSeq(<<n \div 65536, (n \div 256) % 256, n % 256>>, 1, 3 - pad)

RECURSIVE b64decode(_)
b64decode(chars) ==
    IF chars = <<>> THEN <<>>
    ELSE B64DecodeGroup(SubSeq(chars, 1, 4))
             \o b64decode(SubSeq(chars, 5, Len(chars)))

\* url is "data:<mime>;base64,<payload>" and the payload decodes to bytes
IsDataUriOf(url, bytes) ==
    /\ Len(url) >= 1
    /\ url[1] \in {"data:image/png;base64,", "data:image/jpeg;base64,"}
    /\ (Len(url) - 1) % 4 = 0
    /\ \A i \in 2..Len(url) : url[i] = "=" \/ \E n \in 1..64 : B64Alphabet[n] = url[i]
    /\ b64decode(Tail(url)) = bytes

\* C7: with a vision-capable model the appended user turn has has_image=true
\* and its content list holds an image block whose url is a data URI of the
\* attached file's bytes.
C7_VisionTurnCarriesImage ==
    RoutedImage(TRUE) =>
        LET turn == conversation_history[Len(conversation_history)] IN
        /\ turn.role = "user"
        /\ turn.has_image
        /\ turn.content.list
        /\ \E i \in 1..Len(turn.content.blocks) :
              /\ turn.content.blocks[i].type = "image_url"
              /\ IsDataUriOf(turn.content.blocks[i].image_url.url,
                             Files[frame.image.val])

\* C7 witness: text and image were submitted to a vision-capable model on a
\* store that holds earlier turns.
C7_Witness ==
    /\ RoutedImage(TRUE)
    /\ frame.user_input # <<>>
    /\ frame.entry # <<>>
    /\ Len(conversation_history[Len(conversation_history)].content.blocks) = 2

\* C8 (as claimed): no stored turn has an empty content sequence.
C8_NoEmptyContent ==
    \A i \in 1..Len(conversation_history) :
        LET content == conversation_history[i].content IN
        IF content.list THEN content.blocks # <<>> ELSE content.str # <<>>

\* the completion endpoint was called and process_message has returned
Returned_after_completion ==
    Returned_from_call /\ frame.outcome \in {"reply", "no_choices", "raise"}

\* C9 (as claimed): after the endpoint answered, the last turn is the
\* assistant turn with the reply and the error text is empty; after it
\* raised or returned no choices, the last turn is the assistant turn with
\* the error text and that text is returned; the returned history is the
\* rendering of the store.
C9_TwoOutcomes ==
    Returned_after_completion =>
        LET last == conversation_history[Len(conversation_history)]
            display == get_display_history(conversation_history)
        IN  /\ last.role = "assistant"
            /\ IF frame.outcome = "reply"
               THEN /\ last.content = AssistantContent(frame.reply)
                    /\ error_box = <<>>
               ELSE /\ last.content = AssistantContent(error_box)
                    /\ error_box # <<>>
            /\ display.ok
            /\ chatbot = Some(display.val)

\* C10: from an empty store, a call with non-empty text T and no image whose
\* completion returns R leaves exactly the turns (user T, assistant R) and
\* returns [(T, None), (None, R)] with an empty error text.
C10_HelloScenario ==
    (/\ Returned_from_call /\ frame.outcome = "reply"
     /\ frame.entry = <<>>
     /\ frame.user_input # <<>>
     /\ ~ImageAttached)
        => /\ conversation_history =
                 << [role        |-> "user",
                     content     |-> ListContent(<<TextBlock(frame.user_input)>>),
                     has_image   |-> FALSE,
                     hide_prompt |-> FALSE],
                    [role        |-> "assistant",
                     content     |-> ListContent(<<TextBlock(frame.reply)>>),
                     has_image   |-> FALSE,
                     hide_prompt |-> FALSE] >>
           /\ chatbot = Some(<< <<Some(frame.user_input), None>>,
                                <<None, Some(frame.reply)>> >>)
           /\ error_box = <<>>

\* C10 witness: "Hello" was sent without an image to openai/gpt-4o-mini from
\* an empty store and the endpoint answered "Hi there".
C10_Witness ==
    /\ Returned_from_call /\ frame.outcome = "reply"
    /\ frame.entry = <<>>
    /\ frame.user_input = <<"Hello">>
    /\ frame.image = None /\ ~frame.multimodal_enabled
    /\ frame.model_name = "openai/gpt-4o-mini"
    /\ frame.reply = <<"Hi there">>
    /\ Len(conversation_history) = 2

\* the state is the one a call of ChatMemory.clear has just left
Cleared == lastOp.op \in {"clear", "clear_chat"}

\* C11: whatever the store held, it is empty right after clear(), and a
\* second clear() applied to that state leaves the store as the first left it.
C11_ClearEmptiesAndIsIdempotent ==
    Cleared =>
        /\ get_history(conversation_history) = <<>>
        /\ clear(conversation_history) = conversation_history

\* C11 witness: clear() has run on a store that held turns left by a
\* process_message call, and the store is empty.
C11_Witness ==
    /\ Cleared
    /\ Len(lastOp.before) >= 2
    /\ \E i \in 1..Len(lastOp.before) : lastOp.before[i].role = "assistant"
    /\ conversation_history = <<>>

\* the positions of the turns an add_message with this has_image keeps
KeptPositions(history, has_image) ==
    {i \in 1..Len(history) : has_image \/ ~IsMultiBlock(history[i])}

\* the number of kept positions up to and including position i
KeptRank(history, has_image, i) ==
    Cardinality({j \in KeptPositions(history, has_image) : j <= i})

\* C15: after add_message the store holds, unchanged and in their old order,
\* exactly the earlier turns that are not multi-block (every earlier turn when
\* has_image is true), followed by the new turn as the last element.
C15_PruneRemovesExactlyMultiBlock ==
    lastOp.op = "add_message" =>
        LET old == lastOp.before
            new == conversation_history
            kept == KeptPositions(old, lastOp.has_image)
        IN  /\ Len(new) = Cardinality(kept) + 1
            /\ \A i \in kept :
                   new[KeptRank(old, lastOp.has_image, i)] = old[i]
            /\ new[Len(new)].has_image = lastOp.has_image
            /\ lastOp.has_image => SubSeq(new, 1, Len(old)) = old

\* C15 witness: an add_message with has_image=false has removed a
\* multi-block turn that stood before a turn it kept, which moved up.
C15_Witness ==
    /\ lastOp.op = "add_message" /\ ~lastOp.has_image
    /\ Len(lastOp.before) = 2
    /\ IsMultiBlock(lastOp.before[1])
    /\ ~IsMultiBlock(lastOp.before[2])
    /\ Len(conversation_history) = 2
    /\ conversation_history[1] = lastOp.before[2]

\* the text of a failed get_image_description occurs in the turn's first
\* block as the description of the image
StoresDescriptionFailure(turn) ==
    /\ turn.content.list /\ Len(turn.content.blocks) >= 1
    /\ "text" \in DOMAIN turn.content.blocks[1]
    /\ LET text == turn.content.blocks[1].text IN
       \E i \in 1..(Len(text) - 1) :
           /\ text[i] = "\n[Image Description: "
           /\ text[i + 1] = "Error getting image description: "

\* C12 (as claimed): when the description service fails during a
\* process_message call, no user turn stores the failure text as the image's
\* description, and the call returns a non-empty error text.
C12_DescriptionFailureReported ==
    (lastOp.op = "process_message" /\ frame.describe_failed) =>
        /\ \A i \in 1..Len(conversation_history) :
               ~StoresDescriptionFailure(conversation_history[i])
        /\ pc = "idle" => error_box # <<>>

\* a rendered history: a list of (user, assistant) pairs
IsDisplayHistory(shown) ==
    /\ DOMAIN shown = 1..Len(shown)
    /\ \A i \in 1..Len(shown) : Len(shown[i]) = 2

\* C13: every process_message call that has ended has returned; no exception
\* left it, and it handed back a history (None or a list of pairs) and an
\* error text.
C13_AlwaysReturnsPair ==
    Returned_from_call =>
        /\ ~frame.escaped
        /\ chatbot = None \/ IsDisplayHistory(chatbot.val)
        /\ error_box \in Seq(STRING)

\* C13 witness: get_display_history raised inside the handler of the inner
\* try, and the call returned through the handler of the outer try.
C13_Witness ==
    /\ Returned_from_call
    /\ frame.outcome \in {"reply", "build_error"}
    /\ error_box # <<>> /\ error_box[1] = "Error: "
    /\ ~frame.escaped

\* C14 (as claimed): when the selected model identifier is not a key of the
\* capability table, a readable attached image is stored as a text
\* description and never as an image block, and is not sent as one.
C14_LookupBySelectedIdentifier ==
    (/\ lastOp.op = "process_message" /\ pc \in {"appended", "completion"}
     /\ ImageAttached /\ frame.image.val \in DOMAIN Files
     /\ frame.model_name \notin DOMAIN vision_models) =>
        LET turn == conversation_history[Len(conversation_history)] IN
        /\ ~HasImageBlock(turn.content)
        /\ Len(turn.content.blocks) = 1
        /\ ContainsMarker(turn.content.blocks[1].text)
        /\ pc = "completion" =>
               /\ frame.request_model = frame.custom_model
               /\ LET sent == frame.api_messages[Len(frame.api_messages)]
                  IN  ~(sent.content.list /\ HasImageBlock(sent.content))

\* C16: the api_messages handed to chat.completions.create have one message
\* per stored turn, in store order and with the turn's role; the content is
\* the raw block list exactly when the turn has list content and
\* has_image=true, the first block's text for list content with
\* has_image=false, and the string itself otherwise; the store is still the
\* entry store with the user turn appended.
C16_ApiMessagesMirrorStore ==
    pc = "completion" =>
        LET h == conversation_history
            m == frame.api_messages
        IN  /\ Len(m) = Len(h)
            /\ \A i \in 1..Len(h) :
                   /\ DOMAIN m[i] = {"role", "content"}
                   /\ m[i].role = h[i].role
                   /\ m[i].content.list <=> (h[i].content.list /\ h[i].has_image)
                   /\ (h[i].content.list /\ h[i].has_image)
                          => m[i].content = h[i].content
                   /\ (h[i].content.list /\ ~h[i].has_image)
                          => m[i].content.str = h[i].content.blocks[1].text
                   /\ ~h[i].content.list => m[i].content = h[i].content
            /\ h = add_message(frame.entry, "user", h[Len(h)].content,
                               ImageAttached, FALSE)

\* C16 witness: api_messages were built from a store that holds a
\* plain-string turn, a list turn with has_image=true and a list turn with
\* has_image=false.
C16_Witness ==
    /\ pc = "completion"
    /\ \E i, j, k \in 1..Len(conversation_history) :
           /\ ~conversation_history[i].content.list
           /\ conversation_history[j].content.list
           /\ conversation_history[j].has_image
           /\ conversation_history[k].content.list
           /\ ~conversation_history[k].has_image
    /\ Len(frame.api_messages) = 3

\* the last two turns are a user turn with this text and an assistant turn
\* with this reply
EndsWithExchange(history, user_text, reply) ==
    /\ Len(history) >= 2
    /\ LET asked == history[Len(history) - 1]
           answered == history[Len(history)]
       IN  /\ asked.role = "user"
           /\ asked.content.list /\ Len(asked.content.blocks) >= 1
           /\ asked.content.blocks[1] = TextBlock(user_text)
           /\ answered.role = "assistant"
           /\ answered.content = AssistantContent(reply)

\* C17 (as claimed): a process_message call with non-empty text and no image
\* whose completion endpoint answers with a reply returns an empty error text
\* and leaves the user turn and the reply as the last two turns, whatever the
\* calls before it were.
C17_LaterSubmissionSucceeds ==
    (/\ Returned_from_call /\ client # None
     /\ frame.user_input # <<>> /\ ~ImageAttached
     /\ frame.outcome \in {"reply", "build_error"}) =>
        /\ error_box = <<>>
        /\ EndsWithExchange(conversation_history, frame.user_input, frame.reply)

\* the number of assistant turns in the store
AssistantTurns(history) ==
    Cardinality({i \in 1..Len(history) : history[i].role = "assistant"})

\* C18 (as claimed): a process_message call appends at most one assistant
\* turn and calls chat.completions.create at most once.
C18_AtMostOneAssistantTurnPerCall ==
    Returned_from_call =>
        /\ AssistantTurns(conversation_history)
               <= AssistantTurns(frame.entry) + 1
        /\ frame.completion_calls <= 1

\* C19 (as claimed): after a process_message call that returned an empty
\* error text, the last two turns are the user turn just submitted (with its
\* image block when the model is vision-capable) and the assistant reply.
C19_ExchangeEndsStore ==
    (Returned_from_call /\ frame.outcome = "reply" /\ error_box = <<>>) =>
        LET h == conversation_history IN
        /\ Len(h) >= 2
        /\ h[Len(h) - 1].role = "user"
        /\ frame.user_input # <<>> =>
               h[Len(h) - 1].content.blocks[1].text[1] = frame.user_input[1]
        /\ (ImageAttached /\ VisionGet(frame.actual_model))
               => HasImageBlock(h[Len(h) - 1].content)
        /\ h[Len(h)].role = "assistant"
        /\ h[Len(h)].content = AssistantContent(frame.reply)

\* listener t's call has completed add_message for its user turn
UserTurnAppended(t) ==
    /\ threads[t].appended
    /\ threads[t].outcome \notin {"none", "not_configured", "image_error"}

\* the user turn listener t's call appended; without an image it has one
\* block, which no prune removes
UserTurnOf(t) ==
    Turn("user", ListContent(<<TextBlock(threads[t].user_input)>>), FALSE, FALSE)

\* both listeners' calls returned after a reply
BothReplied ==
    \A t \in Threads : threads[t].pc = "done" /\ threads[t].outcome = "reply"

\* C20 (as claimed): with two process_message calls running concurrently on
\* one ChatMemory, a user turn one call appended stays in the store whatever
\* the other call's add_message does, and when both calls have returned a
\* reply each user turn is directly followed by an assistant turn, the
\* exchange of the call that started first standing first.
C20_ConcurrentAppendsAtomic ==
    /\ \A t \in Threads :
           (UserTurnAppended(t) /\ ~threads[t].has_image) =>
               \E i \in 1..Len(conversation_history) :
                   conversation_history[i] = UserTurnOf(t)
    /\ (BothReplied /\ \A t \in Threads : ~threads[t].has_image) =>
           /\ Len(conversation_history) = 4
           /\ \A t \in Threads :
                  /\ conversation_history[2 * threads[t].ticket - 1]
                         = UserTurnOf(t)
                  /\ conversation_history[2 * threads[t].ticket].role
                         = "assistant"

=============================================================================
